---- MODULE Spec2Model ----
(***************************************************************************)
(* Model of the two scripts of the repository:                             *)
(*   scripts/export_bq_tables.py  (the Exporter)                           *)
(*   scripts/load_jsonl_to_bq.py  (the Loader)                             *)
(* Each script is a straight sequence of blocking calls; every call that   *)
(* touches the remote service or the file system is one action, and a      *)
(* remote call has one action per outcome (response or raised exception).  *)
(* The Exporter is checked under ExporterSpec, the Loader under            *)
(* LoaderSpec.                                                             *)
(***************************************************************************)
EXTENDS Integers, Sequences, FiniteSets, TLC

\* ------------------------------------------------------------------ bounds
MaxRows == 2     \* longest row sequence of a remote table
MaxRuns == 2     \* consecutive invocations of a script
MaxLines == 2    \* longest source file of the Loader, in lines

VARIABLES
    \* ---- Exporter: environment
    dataset,      \* remote dataset: [listing: Seq(table id), data: id -> [schema, rows]]
    dirExists,    \* OUTPUT_DIR exists
    files,        \* files of OUTPUT_DIR: name -> sequence of CSV lines
    \* ---- Exporter: program state
    pc,           \* position in main() / export_table()
    tables,       \* main: tables
    idx,          \* main: index of t in the for loop over tables
    table,        \* export_table: table (result of get_table)
    fieldnames,   \* export_table: fieldnames
    pos,          \* export_table: rows already yielded by the row iterator
    \* ---- Exporter: history of the current run
    run,          \* number of the current invocation
    startDir,     \* dirExists when the run started
    startFiles,   \* files when the run started
    written,      \* names opened for writing by this run
    exported,     \* table ids for which export_table returned
    failure,      \* which call raised: "none", "list", "metadata", "rows"
    prevOutcome,  \* how the previous run ended: "none", "done", "halted", "failed"
    \* ---- Loader: environment
    fileExists,   \* FILE_PATH exists
    fileLines,    \* lines of the source file
    dsExists,     \* destination dataset exists remotely
    destRows,     \* rows of the destination table
    \* ---- Loader: program state
    lpc,          \* position in the script
    jobState,     \* state of the load job of this run
    outputRows,   \* job.output_rows
    \* ---- Loader: history of the current run
    lrun,         \* number of the current invocation
    dsBefore,     \* dsExists when the run started
    rowsBefore,   \* destRows when the run started
    calls,        \* remote calls issued by this run, in order
    reported      \* rows reported by the final print, or -1

expVars == <<dataset, dirExists, files, pc, tables, idx, table, fieldnames, pos,
             run, prevOutcome, startDir, startFiles, written, exported, failure>>
loadVars == <<fileExists, fileLines, dsExists, destRows, lpc, jobState, outputRows,
              lrun, dsBefore, rowsBefore, calls, reported>>
vars == <<expVars, loadVars>>

\* ================================================================ helpers
Range(s) == {s[i] : i \in 1..Len(s)}

SeqsUpTo(S, n) == UNION {[1..k -> S] : k \in 0..n}

NoDup(s) == \A i, j \in 1..Len(s) : i # j => s[i] # s[j]

\* ================================================================ Exporter
\* ---- values of a row: None, int, str
Null == [kind |-> "null", n |-> 0, s |-> ""]
IntV(k) == [kind |-> "int", n |-> k, s |-> ""]
StrV(t) == [kind |-> "str", n |-> 0, s |-> t]

DATASET_ID == "dbt_training_marts"

TableNames == {"orders", "customers"}

Field(nm, ty) == [name |-> nm, field_type |-> ty]

Schemas == { <<Field("id", "INTEGER"), Field("name", "STRING")>>,
             <<Field("name", "STRING"), Field("id", "INTEGER")>> }

\* rows the remote row source may yield; a key may be missing from a row
RowPool == { [id |-> IntV(7), name |-> Null],
             [c \in {"name"} |-> StrV("a,b")] }

TableData == [schema : Schemas, rows : SeqsUpTo(RowPool, MaxRows)]

Listings == {l \in SeqsUpTo(TableNames, Cardinality(TableNames)) : NoDup(l)}

Datasets == UNION { [listing : {l}, data : [Range(l) -> TableData]] : l \in Listings }

\* ---- csv.writer (QUOTE_MINIMAL): None -> "", number -> str(number),
\* a string holding the delimiter is quoted
NeedsQuote(t) == t \in {"a,b"}

CsvField(v) ==
    CASE v.kind = "null" -> ""
      [] v.kind = "int" -> ToString(v.n)
      [] v.kind = "str" -> IF NeedsQuote(v.s) THEN "\"" \o v.s \o "\"" ELSE v.s

CsvRow(vals) == [i \in 1..Len(vals) |-> CsvField(vals[i])]

\* row.get(name)
RowGet(row, name) == IF name \in DOMAIN row THEN row[name] ELSE Null

\* variant: only the columns the row holds
RowValuesPresentOnly(row, names) ==
    LET present == SelectSeq(names, LAMBDA nm : nm \in DOMAIN row)
    IN [i \in 1..Len(present) |-> row[present[i]]]

\* [row.get(name) for name in fieldnames]
RowValues(row, names) == [i \in 1..Len(names) |-> RowGet(row, names[i])]

\* variant: the column names in reverse declaration order
FieldNamesReversed(t) ==
    [i \in 1..Len(t.schema) |-> t.schema[Len(t.schema) + 1 - i].name]

\* [field.name for field in table.schema]
FieldNames(t) == [i \in 1..Len(t.schema) |-> t.schema[i].name]

\* variant: the file is named after the dataset
OutputPathOfDataset(table_id) == DATASET_ID \o ".csv"

\* OUTPUT_DIR / f"{table.table_id}.csv"
OutputPath(table_id) == table_id \o ".csv"

\* variant: the file is opened for append
OpenModeAppend == "a"

\* output_path.open("w"): create or truncate
OpenMode == "w"

OpenFile(fs, name) ==
    IF OpenMode = "w" \/ name \notin DOMAIN fs
    THEN (name :> <<>>) @@ fs
    ELSE fs

\* writer.writerow(vals) on the open file
WriteRow(fs, name, vals) == [fs EXCEPT ![name] = Append(@, vals)]

NoTable == [table_id |-> "", schema |-> <<>>]

OldContent == << <<"old">>, <<"old", "line">> >>

EmptyDir == [n \in {} |-> <<>>]

InitialFiles ==
    { EmptyDir,
      [n \in {OutputPath(t) : t \in TableNames} \cup {"notes.csv"} |-> OldContent] }

ExpLocalsInit ==
    /\ pc = "start"
    /\ tables = <<>>
    /\ idx = 0
    /\ table = NoTable
    /\ fieldnames = <<>>
    /\ pos = 0
    /\ written = {}
    /\ exported = <<>>
    /\ failure = "none"

ExpInit ==
    /\ dataset \in Datasets
    /\ dirExists \in BOOLEAN
    /\ files \in (IF dirExists THEN InitialFiles ELSE {EmptyDir})
    /\ run = 1
    /\ prevOutcome = "none"
    /\ startDir = dirExists
    /\ startFiles = files
    /\ ExpLocalsInit

\* variant: the output directory is made before the listing is looked at
ListTablesMkdirFirst ==
    /\ pc = "start"
    /\ tables' = dataset.listing
    /\ dirExists' = TRUE
    /\ IF dataset.listing = <<>>
       THEN pc' = "halted" /\ idx' = idx
       ELSE pc' = "get_table" /\ idx' = 1
    /\ UNCHANGED <<dataset, files, table, fieldnames, pos,
                   run, prevOutcome, startDir, startFiles, written, exported, failure>>

\* main: tables = list(client.list_tables(dataset_ref)); if not tables: raise SystemExit
ListTables ==
    /\ pc = "start"
    /\ tables' = dataset.listing
    /\ IF dataset.listing = <<>>
       THEN pc' = "halted" /\ idx' = idx
       ELSE pc' = "get_table" /\ idx' = 1
    /\ UNCHANGED <<dataset, dirExists, files, table, fieldnames, pos,
                   run, prevOutcome, startDir, startFiles, written, exported, failure>>

\* client.list_tables raises
ListTablesFail ==
    /\ pc = "start"
    /\ pc' = "failed"
    /\ failure' = "list"
    /\ UNCHANGED <<dataset, dirExists, files, tables, idx, table, fieldnames, pos,
                   run, prevOutcome, startDir, startFiles, written, exported>>

\* export_table: table = client.get_table(table_ref)
GetTable ==
    /\ pc = "get_table"
    /\ table' = [table_id |-> tables[idx], schema |-> dataset.data[tables[idx]].schema]
    /\ pos' = 0
    /\ pc' = "mkdir"
    /\ UNCHANGED <<dataset, dirExists, files, tables, idx, fieldnames,
                   run, prevOutcome, startDir, startFiles, written, exported, failure>>

\* client.get_table raises: propagates out of export_table and main
GetTableFail ==
    /\ pc = "get_table"
    /\ pc' = "failed"
    /\ failure' = "metadata"
    /\ UNCHANGED <<dataset, dirExists, files, tables, idx, table, fieldnames, pos,
                   run, prevOutcome, startDir, startFiles, written, exported>>

\* OUTPUT_DIR.mkdir(parents=True, exist_ok=True); output_path, fieldnames
Mkdir ==
    /\ pc = "mkdir"
    /\ dirExists' = TRUE
    /\ fieldnames' = FieldNames(table)
    /\ pc' = "open"
    /\ UNCHANGED <<dataset, files, tables, idx, table, pos,
                   run, prevOutcome, startDir, startFiles, written, exported, failure>>

\* with output_path.open("w", ...) as f
Open ==
    /\ pc = "open"
    /\ files' = OpenFile(files, OutputPath(table.table_id))
    /\ written' = written \cup {OutputPath(table.table_id)}
    /\ pc' = "header"
    /\ UNCHANGED <<dataset, dirExists, tables, idx, table, fieldnames, pos,
                   run, prevOutcome, startDir, startFiles, exported, failure>>

\* writer.writerow(fieldnames)
WriteHeader ==
    /\ pc = "header"
    /\ files' = WriteRow(files, OutputPath(table.table_id),
                         CsvRow([i \in 1..Len(fieldnames) |-> StrV(fieldnames[i])]))
    /\ pc' = "list_rows"
    /\ UNCHANGED <<dataset, dirExists, tables, idx, table, fieldnames, pos,
                   run, prevOutcome, startDir, startFiles, written, exported, failure>>

\* rows = client.list_rows(table)
ListRows ==
    /\ pc = "list_rows"
    /\ pos' = 0
    /\ pc' = "rows"
    /\ UNCHANGED <<dataset, dirExists, files, tables, idx, table, fieldnames,
                   run, prevOutcome, startDir, startFiles, written, exported, failure>>

\* for row in rows: writer.writerow([row.get(name) for name in fieldnames])
NextRow ==
    /\ pc = "rows"
    /\ pos < Len(dataset.data[table.table_id].rows)
    /\ files' = WriteRow(files, OutputPath(table.table_id),
                         CsvRow(RowValues(dataset.data[table.table_id].rows[pos + 1],
                                          fieldnames)))
    /\ pos' = pos + 1
    /\ UNCHANGED <<dataset, dirExists, tables, idx, table, fieldnames, pc,
                   run, prevOutcome, startDir, startFiles, written, exported, failure>>

\* variant: the partial file is removed when the row fetch raises
RowFetchFailCleanup ==
    /\ pc \in {"list_rows", "rows"}
    /\ pc' = "failed"
    /\ failure' = "rows"
    /\ files' = [n \in DOMAIN files \ {OutputPath(table.table_id)} |-> files[n]]
    /\ UNCHANGED <<dataset, dirExists, tables, idx, table, fieldnames, pos,
                   run, prevOutcome, startDir, startFiles, written, exported>>

\* client.list_rows or a page fetch of the iterator raises: the with block
\* closes the file, the exception propagates out of export_table and main
RowFetchFail ==
    /\ pc \in {"list_rows", "rows"}
    /\ pc' = "failed"
    /\ failure' = "rows"
    /\ UNCHANGED <<dataset, dirExists, files, tables, idx, table, fieldnames, pos,
                   run, prevOutcome, startDir, startFiles, written, exported>>

\* the iterator is exhausted: the file is closed, export_table returns,
\* main prints and takes the next table
EndRows ==
    /\ pc = "rows"
    /\ pos = Len(dataset.data[table.table_id].rows)
    /\ exported' = Append(exported, table.table_id)
    /\ IF idx < Len(tables)
       THEN idx' = idx + 1 /\ pc' = "get_table"
       ELSE idx' = idx /\ pc' = "done"
    /\ UNCHANGED <<dataset, dirExists, files, tables, table, fieldnames, pos,
                   run, prevOutcome, startDir, startFiles, written, failure>>

\* the script is invoked again after the previous run ended
ExpRerun ==
    /\ pc \in {"done", "halted", "failed"}
    /\ run < MaxRuns
    /\ run' = run + 1
    /\ prevOutcome' = pc
    /\ startDir' = dirExists
    /\ startFiles' = files
    /\ pc' = "start"
    /\ tables' = <<>>
    /\ idx' = 0
    /\ table' = NoTable
    /\ fieldnames' = <<>>
    /\ pos' = 0
    /\ written' = {}
    /\ exported' = <<>>
    /\ failure' = "none"
    /\ UNCHANGED <<dataset, dirExists, files>>

LoadIdle ==
    /\ fileExists = FALSE
    /\ fileLines = <<>>
    /\ dsExists = FALSE
    /\ destRows = <<>>
    /\ lpc = "idle"
    /\ jobState = "none"
    /\ outputRows = 0
    /\ lrun = 0
    /\ dsBefore = FALSE
    /\ rowsBefore = <<>>
    /\ calls = <<>>
    /\ reported = -1

ExporterInit == ExpInit /\ LoadIdle

ExporterNext ==
    \/ ListTables /\ UNCHANGED loadVars
    \/ ListTablesFail /\ UNCHANGED loadVars
    \/ GetTable /\ UNCHANGED loadVars
    \/ GetTableFail /\ UNCHANGED loadVars
    \/ Mkdir /\ UNCHANGED loadVars
    \/ Open /\ UNCHANGED loadVars
    \/ WriteHeader /\ UNCHANGED loadVars
    \/ ListRows /\ UNCHANGED loadVars
    \/ NextRow /\ UNCHANGED loadVars
    \/ RowFetchFail /\ UNCHANGED loadVars
    \/ EndRows /\ UNCHANGED loadVars
    \/ ExpRerun /\ UNCHANGED loadVars

ExporterSpec == ExporterInit /\ [][ExporterNext]_vars

\* ================================================================== Loader
TABLE_ID == "orders"

\* lines a source file may hold: JSON records, or text that is no JSON record
LinePool == {"{\"id\": 1}", "{\"id\": 2}", "{\"id\": "}

WellFormed(line) == line \in {"{\"id\": 1}", "{\"id\": 2}"}

\* the record the service reads from a well-formed line (schema auto-detected)
ParseLine(line) ==
    CASE line = "{\"id\": 1}" -> [id |-> 1]
      [] line = "{\"id\": 2}" -> [id |-> 2]

ParseFile(lines) == [i \in 1..Len(lines) |-> ParseLine(lines[i])]

\* contents the destination table may hold before the first run
OldTables == { <<>>, <<[id |-> 9]>>, <<[id |-> 1], [id |-> 9]>> }

\* variant: no write disposition is given, and a load job then appends
JobConfigNoDisposition ==
    [source_format |-> "NEWLINE_DELIMITED_JSON",
     autodetect |-> TRUE,
     write_disposition |-> "WRITE_APPEND"]

\* job_config = bigquery.LoadJobConfig(...)
JobConfig ==
    [source_format |-> "NEWLINE_DELIMITED_JSON",
     autodetect |-> TRUE,
     write_disposition |-> "WRITE_TRUNCATE"]

\* what a load job that succeeds leaves in the destination table
LoadedTable(cfg, old, new) ==
    IF cfg.write_disposition = "WRITE_TRUNCATE" THEN new ELSE old \o new

\* a call of the client, with whether it returned (ok) or raised
Call(op, ok) == [op |-> op, ok |-> ok]

LoadLocalsInit ==
    /\ lpc = "start"
    /\ jobState = "none"
    /\ outputRows = 0
    /\ calls = <<>>
    /\ reported = -1

LoadInit ==
    /\ fileExists \in BOOLEAN
    /\ fileLines \in (IF fileExists THEN SeqsUpTo(LinePool, MaxLines) ELSE {<<>>})
    /\ dsExists \in BOOLEAN
    /\ destRows \in (IF dsExists THEN OldTables ELSE {<<>>})
    /\ lrun = 1
    /\ dsBefore = dsExists
    /\ rowsBefore = destRows
    /\ LoadLocalsInit

\* variant: the script goes on although the file is missing
CheckFileIgnored ==
    /\ lpc = "start"
    /\ lpc' = "get_dataset"
    /\ UNCHANGED <<fileExists, fileLines, dsExists, destRows, jobState, outputRows,
                   lrun, dsBefore, rowsBefore, calls, reported>>

\* if not os.path.exists(FILE_PATH): raise SystemExit; client = bigquery.Client(...)
CheckFile ==
    /\ lpc = "start"
    /\ lpc' = IF fileExists THEN "get_dataset" ELSE "halted"
    /\ UNCHANGED <<fileExists, fileLines, dsExists, destRows, jobState, outputRows,
                   lrun, dsBefore, rowsBefore, calls, reported>>

\* try: dataset = client.get_dataset(dataset_ref) returns
GetDatasetOk ==
    /\ lpc = "get_dataset"
    /\ dsExists
    /\ calls' = Append(calls, Call("get_dataset", TRUE))
    /\ lpc' = "load"
    /\ UNCHANGED <<fileExists, fileLines, dsExists, destRows, jobState, outputRows,
                   lrun, dsBefore, rowsBefore, reported>>

\* client.get_dataset raises (the dataset is absent, or any other error):
\* except Exception
GetDatasetRaises ==
    /\ lpc = "get_dataset"
    /\ calls' = Append(calls, Call("get_dataset", FALSE))
    /\ lpc' = "create_dataset"
    /\ UNCHANGED <<fileExists, fileLines, dsExists, destRows, jobState, outputRows,
                   lrun, dsBefore, rowsBefore, reported>>

\* client.create_dataset(dataset, exists_ok=True) returns: the dataset was
\* created, or it was there and the conflict is swallowed
CreateDatasetOk ==
    /\ lpc = "create_dataset"
    /\ calls' = Append(calls, Call("create_dataset", TRUE))
    /\ dsExists' = TRUE
    /\ lpc' = "load"
    /\ UNCHANGED <<fileExists, fileLines, destRows, jobState, outputRows,
                   lrun, dsBefore, rowsBefore, reported>>

\* variant: a failure of create_dataset is swallowed and the script goes on
CreateDatasetRaisesIgnored ==
    /\ lpc = "create_dataset"
    /\ calls' = Append(calls, Call("create_dataset", FALSE))
    /\ lpc' = "load"
    /\ UNCHANGED <<fileExists, fileLines, dsExists, destRows, jobState, outputRows,
                   lrun, dsBefore, rowsBefore, reported>>

\* client.create_dataset raises: nothing catches it
CreateDatasetRaises ==
    /\ lpc = "create_dataset"
    /\ calls' = Append(calls, Call("create_dataset", FALSE))
    /\ lpc' = "failed"
    /\ UNCHANGED <<fileExists, fileLines, dsExists, destRows, jobState, outputRows,
                   lrun, dsBefore, rowsBefore, reported>>

\* with open(FILE_PATH, "rb"): job = client.load_table_from_file(...) returns
SubmitLoad ==
    /\ lpc = "load"
    /\ calls' = Append(calls, Call("load_table_from_file", TRUE))
    /\ jobState' = "RUNNING"
    /\ lpc' = "result"
    /\ UNCHANGED <<fileExists, fileLines, dsExists, destRows, outputRows,
                   lrun, dsBefore, rowsBefore, reported>>

\* client.load_table_from_file raises: no job, nothing catches it
SubmitLoadRaises ==
    /\ lpc = "load"
    /\ calls' = Append(calls, Call("load_table_from_file", FALSE))
    /\ lpc' = "failed"
    /\ UNCHANGED <<fileExists, fileLines, dsExists, destRows, jobState, outputRows,
                   lrun, dsBefore, rowsBefore, reported>>

\* job.result() returns: the job is DONE without error. A job succeeds only
\* when every line is a record (no bad record is allowed by job_config)
JobSucceeds ==
    /\ lpc = "result"
    /\ dsExists
    /\ \A i \in 1..Len(fileLines) : WellFormed(fileLines[i])
    /\ destRows' = LoadedTable(JobConfig, destRows, ParseFile(fileLines))
    /\ outputRows' = Len(ParseFile(fileLines))
    /\ jobState' = "DONE"
    /\ lpc' = "report"
    /\ UNCHANGED <<fileExists, fileLines, dsExists,
                   lrun, dsBefore, rowsBefore, calls, reported>>

\* job.result() raises: the job ended in error, the table is as it was
JobFails ==
    /\ lpc = "result"
    /\ jobState' = "FAILED"
    /\ lpc' = "failed"
    /\ UNCHANGED <<fileExists, fileLines, dsExists, destRows, outputRows,
                   lrun, dsBefore, rowsBefore, calls, reported>>

\* print(f"Loaded {job.output_rows} rows into {table_ref}.")
Report ==
    /\ lpc = "report"
    /\ reported' = outputRows
    /\ lpc' = "done"
    /\ UNCHANGED <<fileExists, fileLines, dsExists, destRows, jobState, outputRows,
                   lrun, dsBefore, rowsBefore, calls>>

\* the script is invoked again after the previous run ended
LoadRerun ==
    /\ lpc \in {"done", "halted", "failed"}
    /\ lrun < MaxRuns
    /\ lrun' = lrun + 1
    /\ dsBefore' = dsExists
    /\ rowsBefore' = destRows
    /\ lpc' = "start"
    /\ jobState' = "none"
    /\ outputRows' = 0
    /\ calls' = <<>>
    /\ reported' = -1
    /\ UNCHANGED <<fileExists, fileLines, dsExists, destRows>>

ExpIdle ==
    /\ dataset = [listing |-> <<>>, data |-> EmptyDir]
    /\ dirExists = FALSE
    /\ files = EmptyDir
    /\ run = 0
    /\ prevOutcome = "none"
    /\ startDir = FALSE
    /\ startFiles = EmptyDir
    /\ pc = "idle"
    /\ tables = <<>>
    /\ idx = 0
    /\ table = NoTable
    /\ fieldnames = <<>>
    /\ pos = 0
    /\ written = {}
    /\ exported = <<>>
    /\ failure = "none"

LoaderInit == LoadInit /\ ExpIdle

LoaderNext ==
    \/ CheckFile /\ UNCHANGED expVars
    \/ GetDatasetOk /\ UNCHANGED expVars
    \/ GetDatasetRaises /\ UNCHANGED expVars
    \/ CreateDatasetOk /\ UNCHANGED expVars
    \/ CreateDatasetRaises /\ UNCHANGED expVars
    \/ SubmitLoad /\ UNCHANGED expVars
    \/ SubmitLoadRaises /\ UNCHANGED expVars
    \/ JobSucceeds /\ UNCHANGED expVars
    \/ JobFails /\ UNCHANGED expVars
    \/ Report /\ UNCHANGED expVars
    \/ LoadRerun /\ UNCHANGED expVars

LoaderSpec == LoaderInit /\ [][LoaderNext]_vars

\* --------------------------------------------------------- Loader properties
Ops == [i \in 1..Len(calls) |-> calls[i].op]

Issued(op) == \E i \in 1..Len(calls) : calls[i].op = op

\* C2: when the source file does not exist the run halts before any remote
\* call: no get-dataset, create-dataset or load-job submission occurs.
C2_MissingFileNoRemoteCall ==
    ~fileExists =>
        /\ calls = <<>>
        /\ lpc \in {"start", "halted"}
        /\ jobState = "none"
        /\ dsExists = dsBefore /\ destRows = rowsBefore

C2_Witness == ~fileExists /\ lpc = "halted" /\ lrun = 2

\* C3: the Loader creates the destination dataset if and only if the dataset
\* did not exist before the run, whatever the outcome of the get-dataset call.
C3_CreateIffAbsentBefore ==
    /\ Issued("create_dataset") => ~dsBefore
    /\ (lpc \in {"load", "result", "report", "done"} /\ ~dsBefore) => Issued("create_dataset")

\* C4: after a run whose load job succeeded the destination table holds exactly
\* the records of the source file: as many rows as the file has lines, and no
\* row of the former contents remains.
C4_LoadReplacesTable ==
    (jobState = "DONE") =>
        /\ Len(destRows) = Len(fileLines)
        /\ \A i \in 1..Len(fileLines) : destRows[i] = ParseLine(fileLines[i])
        /\ outputRows = Len(fileLines)

C4_Witness ==
    /\ lpc = "done" /\ jobState = "DONE"
    /\ rowsBefore = <<[id |-> 1], [id |-> 9]>>
    /\ fileLines = <<"{\"id\": 2}", "{\"id\": 1}">>
    /\ destRows = <<[id |-> 2], [id |-> 1]>>
    /\ reported = 2

\* C10: at most one load job is submitted per run, only after the file check
\* passed and the ensure-dataset step ended without an uncaught error; a failed
\* job is not resubmitted; the row count is reported only after the job
\* succeeded.
C10_OneLoadJobInOrder ==
    /\ Cardinality({i \in 1..Len(calls) : calls[i].op = "load_table_from_file"}) <= 1
    /\ Issued("load_table_from_file") =>
           /\ fileExists
           /\ calls[Len(calls)].op = "load_table_from_file"
           /\ \E i \in 1..(Len(calls) - 1) :
                  calls[i].op \in {"get_dataset", "create_dataset"} /\ calls[i].ok
           /\ \A i \in 1..Len(calls) : calls[i].op = "create_dataset" => calls[i].ok
    /\ jobState # "none" => Issued("load_table_from_file")
    /\ jobState = "FAILED" =>
           /\ lpc = "failed"
           /\ ~ENABLED (SubmitLoad \/ SubmitLoadRaises \/ JobSucceeds \/ Report)
    /\ (lpc = "done" \/ reported # -1) => (jobState = "DONE" /\ reported = outputRows)

C10_Witness ==
    /\ lpc = "done" /\ reported = 2
    /\ Ops = <<"get_dataset", "create_dataset", "load_table_from_file">>
    /\ ~dsBefore

\* ------------------------------------------------------- Exporter properties
\* the file the export of table t belongs in
FileOf(t) == t \o ".csv"

\* the column names of table t, in declaration order, as the remote service holds them
SchemaNames(t) == [i \in 1..Len(dataset.data[t].schema) |-> dataset.data[t].schema[i].name]

\* the CSV line of row r under the header line hdr
LineOf(r, hdr) == [j \in 1..Len(hdr) |-> CsvField(RowGet(r, hdr[j]))]

\* the complete export of table t
FullExport(t) ==
    <<SchemaNames(t)>> \o
    [i \in 1..Len(dataset.data[t].rows) |-> LineOf(dataset.data[t].rows[i], SchemaNames(t))]

\* file n is as it was when the run started
Untouched(n) ==
    /\ n \notin written
    /\ (n \in DOMAIN files) = (n \in DOMAIN startFiles)
    /\ n \in DOMAIN files => files[n] = startFiles[n]

\* the header of table t's file has been written by this run
HeaderWritten(t) ==
    \/ t \in Range(exported)
    \/ /\ pc \in {"list_rows", "rows", "failed"}
       /\ failure \in {"none", "rows"}
       /\ idx >= 1 /\ tables[idx] = t

\* C1: when the table listing of the dataset is empty the run halts before the
\* output directory is created and before any file is opened or written.
C1_EmptyListingHaltsBeforeOutput ==
    dataset.listing = <<>> =>
        /\ pc \in {"start", "halted", "failed"}
        /\ pc = "failed" => failure = "list"
        /\ dirExists = startDir
        /\ files = startFiles
        /\ written = {}

C1_Witness == pc = "halted" /\ tables = <<>> /\ ~dirExists /\ run = 1

\* C5: the first line of every exported file is the list of the table's column
\* names in the schema's declaration order: same names, same order, same length.
C5_HeaderIsSchemaOrder ==
    \A t \in TableNames :
        HeaderWritten(t) =>
            /\ FileOf(t) \in DOMAIN files
            /\ Len(files[FileOf(t)]) >= 1
            /\ Len(files[FileOf(t)][1]) = Len(dataset.data[t].schema)
            /\ \A i \in 1..Len(dataset.data[t].schema) :
                   files[FileOf(t)][1][i] = dataset.data[t].schema[i].name

C5_Witness ==
    /\ pc = "done"
    /\ Len(exported) = 2
    /\ dataset.data[exported[1]].schema # dataset.data[exported[2]].schema
    /\ files[FileOf(exported[2])][1] = <<"name", "id">>

\* C6: for every table exported to completion the data lines correspond one to
\* one, in order, to the rows of the row source: line i + 1 is row i's values in
\* header column order, an absent value written as the empty marker; no row is
\* dropped, duplicated or reordered.
C6_DataLinesAreRows ==
    \A t \in Range(exported) :
        LET f == files[FileOf(t)]
            rs == dataset.data[t].rows
        IN /\ Len(f) = 1 + Len(rs)
           /\ \A i \in 1..Len(rs) :
                  /\ Len(f[i + 1]) = Len(f[1])
                  /\ \A j \in 1..Len(f[1]) :
                         f[i + 1][j] = IF f[1][j] \in DOMAIN rs[i]
                                       THEN CsvField(rs[i][f[1][j]])
                                       ELSE ""

C6_Witness ==
    /\ pc = "done"
    /\ \E t \in Range(exported) :
           /\ Len(dataset.data[t].rows) = 2
           /\ dataset.data[t].rows[1] # dataset.data[t].rows[2]
           /\ files[FileOf(t)] = << <<"name", "id">>, <<"", "7">>, <<"\"a,b\"", "">> >>

\* C7: after a run that completes on a dataset with at least one table, the
\* files written by the run are exactly one <table_name>.csv per listed table,
\* and each holds only this run's output whatever it held before.
C7_OneFilePerTable ==
    (pc = "done" /\ dataset.listing # <<>>) =>
        /\ written = {FileOf(t) : t \in Range(dataset.listing)}
        /\ Cardinality(written) = Len(dataset.listing)
        /\ \A t \in Range(dataset.listing) : files[FileOf(t)] = FullExport(t)
        /\ DOMAIN files = DOMAIN startFiles \cup written
        /\ \A n \in DOMAIN files \ written : Untouched(n)

C7_Witness ==
    /\ pc = "done"
    /\ Len(dataset.listing) = 2
    /\ \A t \in Range(dataset.listing) :
           /\ FileOf(t) \in DOMAIN startFiles
           /\ startFiles[FileOf(t)] = OldContent
    /\ "notes.csv" \in DOMAIN files

\* C8: a second completed run right after a completed run, on the unchanged
\* dataset, leaves every file as the first run left it.
C8_RerunIsIdempotent ==
    (pc = "done" /\ run > 1 /\ prevOutcome = "done") =>
        /\ files = startFiles
        /\ dirExists = startDir

C8_Witness ==
    /\ pc = "done" /\ run = 2 /\ prevOutcome = "done"
    /\ \E t \in Range(exported) : Len(files[FileOf(t)]) = 3

\* C9: when the metadata fetch or a row fetch fails at the k-th table, the run
\* stops there: no later table is exported, the files of the earlier tables
\* stay as written, after a row-fetch failure the k-th file holds its header
\* and the rows written so far, after a metadata-fetch failure the k-th file
\* is untouched.
C9_FailureAbortsRun ==
    failure \in {"metadata", "rows"} =>
        /\ pc = "failed"
        /\ ~ENABLED (GetTable \/ Mkdir \/ Open \/ WriteHeader \/ ListRows \/ NextRow \/ EndRows)
        /\ exported = SubSeq(tables, 1, idx - 1)
        /\ \A j \in 1..(idx - 1) : files[FileOf(tables[j])] = FullExport(tables[j])
        /\ \A j \in (idx + 1)..Len(tables) : Untouched(FileOf(tables[j]))
        /\ failure = "metadata" => Untouched(FileOf(tables[idx]))
        /\ failure = "rows" =>
               /\ FileOf(tables[idx]) \in DOMAIN files
               /\ files[FileOf(tables[idx])] = SubSeq(FullExport(tables[idx]), 1, 1 + pos)

C9_Witness ==
    /\ pc = "failed" /\ failure = "rows"
    /\ idx = 1 /\ Len(tables) = 2
    /\ pos = 1 /\ Len(dataset.data[tables[1]].rows) = 2
    /\ FileOf(tables[2]) \in DOMAIN files

====
